---- MODULE Spec2Model ----
(***************************************************************************)
(* hey_plot.py: a producer thread (stream_lines_from_stdin or tail_file)   *)
(* turns the lines of a CSV source into records and puts them on a Queue;  *)
(* the matplotlib animation callback update() drains the queue into the    *)
(* deques xs, ys, status_codes and recomputes the axis limits.             *)
(*                                                                         *)
(* Text is modelled as sequences of one-character strings, so that         *)
(* str.strip, str.split, csv.reader and float() are computed character by  *)
(* character.  A Python value that may be None is a sequence of length 0   *)
(* (None) or 1 (the value).                                                *)
(***************************************************************************)
EXTENDS Integers, Sequences, FiniteSets, TLC

(***************************************************************************)
(* Bounds of the model.                                                    *)
(***************************************************************************)
\* Number of lines the writer of the source appends in a free run.
MaxLines == 3
\* Number of lines a writer flushes in two parts (SpecPartial only).
MaxPartial == 1
\* Number of lines of a free run under the fair specification.
MaxFairLines == 2

(***************************************************************************)
(* Characters and text helpers.                                            *)
(***************************************************************************)
NL == "\n"
Whitespace == {" ", "\t", "\n", "\r"}
Digits == {"0", "1", "2", "3", "4", "5", "6", "7", "8", "9"}

None == <<>>
Some(v) == <<v>>

DigitVal(c) ==
    CASE c = "0" -> 0 [] c = "1" -> 1 [] c = "2" -> 2 [] c = "3" -> 3
      [] c = "4" -> 4 [] c = "5" -> 5 [] c = "6" -> 6 [] c = "7" -> 7
      [] c = "8" -> 8 [] c = "9" -> 9

RECURSIVE Pow10(_)
Pow10(n) == IF n = 0 THEN 1 ELSE 10 * Pow10(n - 1)

RECURSIVE LStrip(_)
LStrip(s) ==
    IF s # <<>> /\ Head(s) \in Whitespace THEN LStrip(Tail(s)) ELSE s

RECURSIVE RStrip(_)
RStrip(s) ==
    IF s # <<>> /\ s[Len(s)] \in Whitespace
    THEN RStrip(SubSeq(s, 1, Len(s) - 1))
    ELSE s

\* str.strip()
Strip(s) == RStrip(LStrip(s))

\* str.split(","): the pieces between the commas, empty pieces kept.
RECURSIVE SplitFrom(_, _, _)
SplitFrom(s, i, cur) ==
    IF i > Len(s) THEN <<cur>>
    ELSE IF s[i] = "," THEN <<cur>> \o SplitFrom(s, i + 1, <<>>)
    ELSE SplitFrom(s, i + 1, Append(cur, s[i]))

Split(s) == SplitFrom(s, 1, <<>>)

\* a header whose names keep the blanks around them
ParseHeaderUntrimmed(line) == Split(line)

\* header = [h.strip() for h in line.split(",")]
ParseHeader(line) ==
    LET parts == Split(line) IN [i \in 1..Len(parts) |-> Strip(parts[i])]

(***************************************************************************)
(* csv.reader([line]) with the default (excel) dialect: delimiter ",",     *)
(* quotechar '"', doublequote, not strict.  st is the reader's state:      *)
(* "start" (START_FIELD), "field" (IN_FIELD), "quoted" (IN_QUOTED_FIELD),  *)
(* "qq" (QUOTE_IN_QUOTED_FIELD).                                           *)
(***************************************************************************)
RECURSIVE CsvFrom(_, _, _, _)
CsvFrom(s, i, cur, st) ==
    IF i > Len(s) THEN <<cur>>
    ELSE LET c == s[i] IN
        CASE st = "start" ->
               IF c = "\"" THEN CsvFrom(s, i + 1, cur, "quoted")
               ELSE IF c = "," THEN <<cur>> \o CsvFrom(s, i + 1, <<>>, "start")
               ELSE CsvFrom(s, i + 1, Append(cur, c), "field")
          [] st = "field" ->
               IF c = "," THEN <<cur>> \o CsvFrom(s, i + 1, <<>>, "start")
               ELSE CsvFrom(s, i + 1, Append(cur, c), "field")
          [] st = "quoted" ->
               IF c = "\"" THEN CsvFrom(s, i + 1, cur, "qq")
               ELSE CsvFrom(s, i + 1, Append(cur, c), "quoted")
          [] st = "qq" ->
               IF c = "\"" THEN CsvFrom(s, i + 1, Append(cur, c), "quoted")
               ELSE IF c = "," THEN <<cur>> \o CsvFrom(s, i + 1, <<>>, "start")
               ELSE CsvFrom(s, i + 1, Append(cur, c), "field")

\* row = next(csv.reader([line])), for a non-blank line
ParseRow(line) == CsvFrom(line, 1, <<>>, "start")

(***************************************************************************)
(* record = {h: v for h, v in zip(header, row)}: the dict is filled in     *)
(* header order, a later binding of a key replacing an earlier one.        *)
(***************************************************************************)
\* dict d after d[key] = value
SetItem(d, key, value) ==
    IF \E j \in 1..Len(d) : d[j][1] = key
    THEN [j \in 1..Len(d) |-> IF d[j][1] = key THEN <<key, value>> ELSE d[j]]
    ELSE Append(d, <<key, value>>)

RECURSIVE ZipDict(_, _, _)
ZipDict(header, row, n) ==
    IF n = 0 THEN <<>>
    ELSE CHOOSE r \in {SetItem(d, header[n], row[n]) :
                          d \in {ZipDict(header, row, n - 1)}} : TRUE

MakeRecord(header, row) == ZipDict(header, row, Len(header))

\* rec.get(key): the value, or None
Get(rec, key) ==
    IF \E j \in 1..Len(rec) : rec[j][1] = key
    THEN Some(rec[CHOOSE j \in 1..Len(rec) : rec[j][1] = key][2])
    ELSE None

(***************************************************************************)
(* Python floats.  A float is nan, +inf or -inf, or a finite value; a      *)
(* finite value is kept as an integer count of millionths, which is exact  *)
(* for the decimal literals of the inputs and for the two constants the    *)
(* program adds (1e-6 and 0.1).                                            *)
(***************************************************************************)
Micro == Pow10(6)
NaN == [k |-> "nan", v |-> 0]
Inf(sgn) == [k |-> "inf", v |-> sgn]
Fin(n) == [k |-> "fin", v |-> n]

\* a < b on floats: false whenever either side is nan
FLt(a, b) ==
    /\ a.k # "nan"
    /\ b.k # "nan"
    /\ CASE a.k = "inf" /\ a.v = 1 -> FALSE
         [] a.k = "inf" /\ a.v = -1 -> ~(b.k = "inf" /\ b.v = -1)
         [] a.k = "fin" -> \/ b.k = "inf" /\ b.v = 1
                           \/ b.k = "fin" /\ a.v < b.v

\* a == b on floats: nan equals nothing, itself included
FEq(a, b) == a.k # "nan" /\ b.k # "nan" /\ a = b

\* a + d for a finite d given in millionths
FAdd(a, d) == IF a.k = "fin" THEN Fin(a.v + d) ELSE a

\* min(seq) and max(seq) as the builtins compute them: the first element,
\* replaced by each later element that compares smaller (greater).
RECURSIVE PyMin(_, _)
PyMin(seq, n) ==
    IF n = 1 THEN seq[1]
    ELSE CHOOSE r \in {IF FLt(seq[n], m) THEN seq[n] ELSE m :
                          m \in {PyMin(seq, n - 1)}} : TRUE

RECURSIVE PyMax(_, _)
PyMax(seq, n) ==
    IF n = 1 THEN seq[1]
    ELSE CHOOSE r \in {IF FLt(m, seq[n]) THEN seq[n] ELSE m :
                          m \in {PyMax(seq, n - 1)}} : TRUE

Min(seq) == PyMin(seq, Len(seq))
Max(seq) == PyMax(seq, Len(seq))

(***************************************************************************)
(* float(s) for a string s: surrounding whitespace is ignored; an optional *)
(* sign; then "nan", "inf" or "infinity" in any case, or a decimal number  *)
(* digits[.digits][e[sign]digits] with at least one mantissa digit.        *)
(* Anything else raises ValueError.  The result is None for an error.      *)
(***************************************************************************)
Lower(c) ==
    CASE c = "N" -> "n" [] c = "A" -> "a" [] c = "I" -> "i" [] c = "F" -> "f"
      [] c = "T" -> "t" [] c = "Y" -> "y" [] c = "E" -> "e" [] OTHER -> c

LowerAll(s) == [i \in 1..Len(s) |-> Lower(s[i])]

\* m * 10^e
Scale(m, e) == IF e >= 0 THEN m * Pow10(e) ELSE m \div Pow10(-e)

\* The decimal number s[i..], read left to right.  st is the part being
\* read: "int", "frac", "e" (after the e), "es+"/"es-" (after the sign of the
\* exponent), "ed+"/"ed-" (in the digits of the exponent).  m is the number
\* written by the mantissa digits read (fraction digits after the sixth are
\* dropped), nd and nf count the mantissa and the fraction digits, ex is the
\* exponent read.  The value is in millionths.
RECURSIVE ScanDecimal(_, _, _, _, _, _, _)
ScanDecimal(s, i, st, m, nd, nf, ex) ==
    IF i > Len(s)
    THEN IF nd >= 1 /\ st \in {"int", "frac", "ed+", "ed-"}
         THEN Some(Scale(m * Pow10(IF nf < 6 THEN 6 - nf ELSE 0),
                         IF st = "ed-" THEN -ex ELSE ex))
         ELSE None
    ELSE CASE s[i] \in Digits /\ st = "int" ->
                ScanDecimal(s, i + 1, st, m * 10 + DigitVal(s[i]), nd + 1,
                            nf, ex)
           [] s[i] \in Digits /\ st = "frac" ->
                ScanDecimal(s, i + 1, st,
                            IF nf < 6 THEN m * 10 + DigitVal(s[i]) ELSE m,
                            nd + 1, nf + 1, ex)
           [] s[i] \in Digits /\ st \in {"e", "es+", "ed+"} ->
                ScanDecimal(s, i + 1, "ed+", m, nd, nf,
                            ex * 10 + DigitVal(s[i]))
           [] s[i] \in Digits /\ st \in {"es-", "ed-"} ->
                ScanDecimal(s, i + 1, "ed-", m, nd, nf,
                            ex * 10 + DigitVal(s[i]))
           [] s[i] = "." /\ st = "int" ->
                ScanDecimal(s, i + 1, "frac", m, nd, nf, ex)
           [] s[i] = "e" /\ st \in {"int", "frac"} /\ nd >= 1 ->
                ScanDecimal(s, i + 1, "e", m, nd, nf, ex)
           [] s[i] = "+" /\ st = "e" ->
                ScanDecimal(s, i + 1, "es+", m, nd, nf, ex)
           [] s[i] = "-" /\ st = "e" ->
                ScanDecimal(s, i + 1, "es-", m, nd, nf, ex)
           [] OTHER -> None

ParseDecimal(b, sgn) ==
    CHOOSE r \in {IF v = None THEN None ELSE Some(Fin(sgn * v[1])) :
                     v \in {ScanDecimal(b, 1, "int", 0, 0, 0, 0)}} : TRUE

\* the text after the sign, in lower case
ParseUnsigned(b, sgn) ==
    IF b = <<"n", "a", "n">> THEN Some(NaN)
    ELSE IF b \in {<<"i", "n", "f">>,
                   <<"i", "n", "f", "i", "n", "i", "t", "y">>}
    THEN Some(Inf(sgn))
    ELSE ParseDecimal(b, sgn)

ParseFloat(str) ==
    CHOOSE r \in
        {IF s # <<>> /\ s[1] \in {"+", "-"}
         THEN ParseUnsigned(Tail(s), IF s[1] = "-" THEN -1 ELSE 1)
         ELSE ParseUnsigned(s, 1) :
            s \in {LowerAll(Strip(str))}} : TRUE

\* def try_float(s): float(None) raises TypeError, which is caught as well
try_float(s) == IF s = None THEN None ELSE ParseFloat(s[1])

(***************************************************************************)
(* Configuration (parse_args) and the constants of update().               *)
(***************************************************************************)
OFFSET == <<"o", "f", "f", "s", "e", "t">>
RESPONSE_TIME ==
    <<"r", "e", "s", "p", "o", "n", "s", "e", "-", "t", "i", "m", "e">>
STATUS_CODE == <<"s", "t", "a", "t", "u", "s", "-", "c", "o", "d", "e">>

\* --x and --y, at their defaults
XCol == OFFSET
YCol == RESPONSE_TIME

\* max(xs) + 1e-6 and ymin -= 0.1, ymax += 0.1, in millionths
XEps == 1
YEps == 100000

(***************************************************************************)
(* The lines a writer may append to the source.                            *)
(***************************************************************************)
C == <<",">>
H3 == OFFSET \o C \o RESPONSE_TIME \o C \o STATUS_CODE
\* a header with blanks around its names and the X column named twice
H2 == OFFSET \o C \o RESPONSE_TIME
HDup == OFFSET \o <<",", " ">> \o RESPONSE_TIME \o <<" ", ",">> \o OFFSET
L1 == <<"1", ",", "0", ".", "1", "2", ",", "2", "0", "0">>
L2 == <<"2", ",", "0", ".", "3", "4", ",", "2", "0", "0">>
L3 == <<"3", ",", "b", "a", "d", ",", "2", "0", "0">>
L4 == <<"4", ",", "0", ".", "5", "0", ",", "5", "0", "0">>
\* one field short, one field too many
LShort == <<"5", ",", "0", ".", "5">>
LLong == <<"6", ",", "0", ".", "6", ",", "2", "0", "0", ",", "9">>
\* a quoted field that holds the delimiter: three fields
LQuoted == <<"7", ",", "0", ".", "1", "2", ",", "\"", "a", ",", "b", "\"">>
\* an empty Y value, and Y values float() accepts that are not finite
LEmptyY == <<"8", ",", ",", "2", "0", "0">>
LNan == <<"9", ",", "n", "a", "n", ",", "2", "0", "0">>
LInf == <<"i", "n", "f", ",", "0", ".", "1", "2", ",", "2", "0", "0">>
LBlank == <<" ">>

\* the lines a writer picks from when it writes what it likes
Lines == {H3, L1, L3, LBlank}

\* the end-to-end scenario of the program's documentation
EndToEnd == <<H3, L1, L2, L3, L4>>

\* scripted sources: the writer appends the lines of one of them in order
Scenarios ==
    << EndToEnd,
       <<HDup, L1, L4>>,
       <<H3, LNan, L1, LInf>>,
       <<H3, LQuoted, LLong, LEmptyY, H3>>,
       <<H3, LShort, L4>>,
       <<H2, LShort, L1>> >>

(***************************************************************************)
(* State.                                                                  *)
(***************************************************************************)
VARIABLES
    mode,          \* "stdin": stream_lines_from_stdin; "file": tail_file
    avail,         \* the source at start: "ok"; "missing": the file cannot
                   \* be opened; "tty": stdin is a terminal, not a pipe
    mpc,           \* main(): "start", "show" (in plt.show()), "exit"
    feed,          \* 0: the writer picks its lines; i > 0: Scenarios[i]
    file,          \* the text written to the source so far
    pending,       \* the rest of a line the writer has written in part
    partials,      \* number of lines written in two parts so far
    closed,        \* the writer has closed the pipe (stdin at end-of-file)
    pos,           \* the producer's read position in the source
    ppc,           \* producer thread: "none" (not started), "open",
                   \* "stream", "replay", "follow", "done", "failed"
    header,        \* None or Some(list of column names)
    q,             \* the Queue
    pushed,        \* history: every record put on the queue, in order
    pushPhase,     \* history: the value of ppc at each of these puts
    headerPhase,   \* history: the value of ppc when header was set
    xs, ys, status_codes,
    cpc,           \* update(): "idle" between ticks, "drain" in the loop
    updated,       \* update()'s local flag
    tickBase,      \* history: len(xs) when the latest tick began
    tickLeft,      \* history: records on the queue when it began that
                   \* it has not popped yet
    tickPops,      \* history: records popped by the latest tick
    xlim, ylim,    \* None or Some(<<low, high>>): the limits last set
    title,         \* None ("hey live plot") or Some(status shown)
    redraws        \* number of line.set_data calls

vars == <<mode, avail, mpc, feed, file, pending, partials, closed, pos, ppc,
          header, q, pushed, pushPhase, headerPhase, xs, ys, status_codes, cpc, updated,
          tickBase, tickLeft, tickPops, xlim, ylim, title, redraws>>

srcVars == <<mode, avail, feed, file, pending, partials, closed>>
prodVars == <<pos, ppc, header, headerPhase>>
putVars == <<q, pushed, pushPhase>>
consVars == <<xs, ys, status_codes, cpc, updated, tickBase, tickLeft,
              tickPops, xlim, ylim, title, redraws>>

(***************************************************************************)
(* The source: a pipe or a file that some writer appends to.               *)
(***************************************************************************)
\* the positions of the newlines of a text
Newlines(text) == {i \in 1..Len(text) : text[i] = NL}

\* lines written so far, an unterminated last one included
NumLines(text) ==
    Cardinality(Newlines(text))
    + (IF text # <<>> /\ text[Len(text)] # NL THEN 1 ELSE 0)

\* the lines the writer may write next
NextLines ==
    IF feed = 0
    THEN IF NumLines(file) < MaxLines THEN Lines ELSE {}
    ELSE IF NumLines(file) < Len(Scenarios[feed])
         THEN {Scenarios[feed][NumLines(file) + 1]}
         ELSE {}

\* the writer appends one whole line
WriteLine ==
    /\ avail = "ok"
    /\ ~closed
    /\ pending = <<>>
    /\ \E l \in NextLines : file' = file \o l \o <<NL>>
    /\ UNCHANGED <<mode, avail, mpc, feed, pending, partials, closed,
                   prodVars, putVars, consVars>>

\* the writer of the pipe closes it, possibly after a last line that has
\* no newline
CloseStream ==
    /\ mode = "stdin"
    /\ avail = "ok"
    /\ ~closed
    /\ pending = <<>>
    /\ \E l \in {<<>>} \cup NextLines : file' = file \o l
    /\ closed' = TRUE
    /\ UNCHANGED <<mode, avail, mpc, feed, pending, partials, prodVars,
                   putVars, consVars>>

\* where a writer's buffer may end inside a line: right after a delimiter,
\* before the last character, or before the newline
Cuts(l) ==
    {k \in 1..Len(l) : l[k] = "," \/ k >= Len(l) - 1}

\* the writer of the file flushes the first k characters of a line ...
WritePartial ==
    /\ mode = "file"
    /\ avail = "ok"
    /\ pending = <<>>
    /\ partials < MaxPartial
    /\ \E l \in NextLines : \E k \in Cuts(l) :
          /\ file' = file \o SubSeq(l, 1, k)
          /\ pending' = SubSeq(l, k + 1, Len(l)) \o <<NL>>
    /\ partials' = partials + 1
    /\ UNCHANGED <<mode, avail, mpc, feed, closed, prodVars, putVars, consVars>>

\* ... and then the rest of it
WriteRest ==
    /\ pending # <<>>
    /\ file' = file \o pending
    /\ pending' = <<>>
    /\ UNCHANGED <<mode, avail, mpc, feed, partials, closed, prodVars,
                   putVars, consVars>>

(***************************************************************************)
(* Reading the source.                                                     *)
(***************************************************************************)
\* index of the first newline at or after index i, or 0
FindNL(text, i) ==
    LET after == {n \in Newlines(text) : n >= i} IN
    IF after = {} THEN 0
    ELSE CHOOSE n \in after : \A m \in after : n <= m

\* f.readline() at position p: through the next newline, or to the end of
\* the text when there is none; empty at the end of the text
ReadLine(text, p) ==
    LET n == FindNL(text, p + 1) IN
    SubSeq(text, p + 1, IF n = 0 THEN Len(text) ELSE n)

\* a reader that lets a row through when it has at least the header's fields
ArityAtLeast(row, hdr) == Len(row) >= Len(hdr)

\* len(row) != len(header) -> continue
ArityOk(row, hdr) == Len(row) = Len(hdr)

\* The body of the three read loops, for the line raw just read:
\*   line = raw.strip(); blank -> continue
\*   header is None -> header = [...]; continue
\*   row = csv row; len(row) != len(header) -> continue
\*   out_q.put({h: v for h, v in zip(header, row)})
HandleLine(raw) ==
    \E line \in {Strip(raw)} :
    /\ pos' = pos + Len(raw)
    /\ IF line = <<>>
       THEN UNCHANGED <<header, headerPhase, putVars>>
       ELSE IF header = None
       THEN /\ header' = Some(ParseHeader(line))
            /\ headerPhase' = ppc
            /\ UNCHANGED putVars
       ELSE \E row \in {ParseRow(line)} :
            IF ~ArityOk(row, header[1])
            THEN UNCHANGED <<header, headerPhase, putVars>>
            ELSE \E record \in {MakeRecord(header[1], row)} :
                 /\ q' = Append(q, record)
                 /\ pushed' = Append(pushed, record)
                 /\ pushPhase' = Append(pushPhase, ppc)
                 /\ UNCHANGED <<header, headerPhase>>

\* a reader that never returns a last line that has no newline
StreamStepTerminatedOnly ==
    /\ ppc = "stream"
    /\ FindNL(file, pos + 1) # 0
    /\ \E raw \in {ReadLine(file, pos)} : HandleLine(raw)
    /\ UNCHANGED <<srcVars, mpc, ppc, consVars>>

\* for raw in sys.stdin: the iterator returns once a whole line has
\* arrived, or what is left when the pipe is closed
StreamStep ==
    /\ ppc = "stream"
    /\ \/ FindNL(file, pos + 1) # 0
       \/ closed /\ pos < Len(file)
    /\ \E raw \in {ReadLine(file, pos)} : HandleLine(raw)
    /\ UNCHANGED <<srcVars, mpc, ppc, consVars>>

\* a reader that puts an end marker (an empty record) on the queue when
\* the stream ends
StreamEndMarker ==
    /\ ppc = "stream"
    /\ closed
    /\ pos = Len(file)
    /\ ppc' = "done"
    /\ q' = Append(q, <<>>)
    /\ pushed' = Append(pushed, <<>>)
    /\ pushPhase' = Append(pushPhase, ppc)
    /\ UNCHANGED <<srcVars, mpc, pos, header, headerPhase, consVars>>

\* end of stream: the loop and the thread end
StreamEnd ==
    /\ ppc = "stream"
    /\ closed
    /\ pos = Len(file)
    /\ ppc' = "done"
    /\ UNCHANGED <<srcVars, mpc, pos, header, headerPhase, putVars, consVars>>

\* tail_file, first loop: a line of the existing content
ReplayStep ==
    /\ ppc = "replay"
    /\ pos < Len(file)
    /\ \E raw \in {ReadLine(file, pos)} : HandleLine(raw)
    /\ UNCHANGED <<srcVars, mpc, ppc, consVars>>

\* a tailer that empties the buffers when it starts to follow
ReplayEndClears ==
    /\ ppc = "replay"
    /\ pos = Len(file)
    /\ ppc' = "follow"
    /\ xs' = <<>>
    /\ ys' = <<>>
    /\ status_codes' = <<>>
    /\ UNCHANGED <<srcVars, mpc, pos, header, headerPhase, putVars, cpc,
                   updated, tickBase, tickLeft, tickPops, xlim, ylim, title,
                   redraws>>

\* tail_file, first loop: readline() returns "" -> break
ReplayEnd ==
    /\ ppc = "replay"
    /\ pos = Len(file)
    /\ ppc' = "follow"
    /\ UNCHANGED <<srcVars, mpc, pos, header, headerPhase, putVars, consVars>>

\* tail_file, second loop: a line was appended
FollowStep ==
    /\ ppc = "follow"
    /\ pos < Len(file)
    /\ \E raw \in {ReadLine(file, pos)} : HandleLine(raw)
    /\ UNCHANGED <<srcVars, mpc, ppc, consVars>>

\* a follow loop that ends at end-of-file
FollowPollBreak ==
    /\ ppc = "follow"
    /\ pos = Len(file)
    /\ ppc' = "done"
    /\ UNCHANGED <<srcVars, mpc, pos, header, headerPhase, putVars, consVars>>

\* tail_file, second loop: readline() returns "" -> sleep(0.1),
\* seek(where), continue
FollowPoll ==
    /\ ppc = "follow"
    /\ pos = Len(file)
    /\ UNCHANGED vars

(***************************************************************************)
(* update(_frame), the animation callback.                                 *)
(***************************************************************************)
\* f"{sc}" in the title
Format(sc) == IF sc = None THEN <<"N", "o", "n", "e">> ELSE sc[1]

\* updated = False, entering the while loop
TickBegin ==
    /\ mpc = "show"
    /\ cpc = "idle"
    /\ cpc' = "drain"
    /\ updated' = FALSE
    /\ tickBase' = Len(xs)
    /\ tickLeft' = Len(q)
    /\ tickPops' = 0
    /\ UNCHANGED <<srcVars, mpc, prodVars, putVars, xs, ys, status_codes,
                   xlim, ylim, title, redraws>>

\* a deque(maxlen=2): the oldest element leaves when a third arrives
DequeAppendCapped(d, v) ==
    IF Len(d) >= 2 THEN Append(Tail(d), v) ELSE Append(d, v)

\* deque().append(v): xs = deque(), ys = deque(), status_codes = deque()
\* have no maxlen
DequeAppend(d, v) == Append(d, v)

\* a get that takes the newest item (a LIFO queue)
QueueGetNewest(queue) ==
    <<queue[Len(queue)], SubSeq(queue, 1, Len(queue) - 1)>>

\* q.get_nowait(): the item at the left end, and the queue without it
QueueGet(queue) == <<Head(queue), Tail(queue)>>

\* an update() that records the status-code before it filters
TickPopStatusFirst ==
    /\ cpc = "drain"
    /\ q # <<>>
    /\ \E got \in {QueueGet(q)} :
       \E rec \in {got[1]} :
       \E x \in {Get(rec, XCol)}, y \in {Get(rec, YCol)},
          sc \in {Get(rec, STATUS_CODE)} :
       \E xf \in {try_float(x)}, yf \in {try_float(y)} :
           /\ q' = got[2]
           /\ status_codes' = DequeAppend(status_codes, sc)
           /\ IF xf = None \/ yf = None
              THEN UNCHANGED <<xs, ys, updated>>
              ELSE /\ xs' = DequeAppend(xs, xf[1])
                   /\ ys' = DequeAppend(ys, yf[1])
                   /\ updated' = TRUE
    /\ tickPops' = tickPops + 1
    /\ tickLeft' = IF tickLeft > 0 THEN tickLeft - 1 ELSE 0
    /\ UNCHANGED <<srcVars, mpc, prodVars, pushed, pushPhase, cpc, tickBase,
                   xlim, ylim, title, redraws>>

\* an update() that also wants a numeric status-code
TickPopStatusFiltered ==
    /\ cpc = "drain"
    /\ q # <<>>
    /\ \E got \in {QueueGet(q)} :
       \E rec \in {got[1]} :
       \E x \in {Get(rec, XCol)}, y \in {Get(rec, YCol)},
          sc \in {Get(rec, STATUS_CODE)} :
       \E xf \in {try_float(x)}, yf \in {try_float(y)} :
           /\ q' = got[2]
           /\ IF xf = None \/ yf = None \/ try_float(sc) = None
              THEN UNCHANGED <<xs, ys, status_codes, updated>>
              ELSE /\ xs' = DequeAppend(xs, xf[1])
                   /\ ys' = DequeAppend(ys, yf[1])
                   /\ status_codes' = DequeAppend(status_codes, sc)
                   /\ updated' = TRUE
    /\ tickPops' = tickPops + 1
    /\ tickLeft' = IF tickLeft > 0 THEN tickLeft - 1 ELSE 0
    /\ UNCHANGED <<srcVars, mpc, prodVars, pushed, pushPhase, cpc, tickBase,
                   xlim, ylim, title, redraws>>

\* one turn of the loop with a record on the queue
TickPop ==
    /\ cpc = "drain"
    /\ q # <<>>
    /\ \E got \in {QueueGet(q)} :
       \E rec \in {got[1]} :
       \E x \in {Get(rec, XCol)}, y \in {Get(rec, YCol)},
          sc \in {Get(rec, STATUS_CODE)} :
       \E xf \in {try_float(x)}, yf \in {try_float(y)} :
           /\ q' = got[2]
           /\ IF xf = None \/ yf = None
              THEN UNCHANGED <<xs, ys, status_codes, updated>>
              ELSE /\ xs' = DequeAppend(xs, xf[1])
                   /\ ys' = DequeAppend(ys, yf[1])
                   /\ status_codes' = DequeAppend(status_codes, sc)
                   /\ updated' = TRUE
    /\ tickPops' = tickPops + 1
    /\ tickLeft' = IF tickLeft > 0 THEN tickLeft - 1 ELSE 0
    /\ UNCHANGED <<srcVars, mpc, prodVars, pushed, pushPhase, cpc, tickBase,
                   xlim, ylim, title, redraws>>

\* ax.set_xlim(min(xs), max(xs) if len(xs) > 1 else max(xs) + 1e-6)
XLimits(sx) ==
    <<Min(sx), IF Len(sx) > 1 THEN Max(sx) ELSE FAdd(Max(sx), XEps)>>

\* ymin, ymax = min(ys), max(ys), each moved by 0.1 when they are equal
YLimits(sy) ==
    LET ymin == Min(sy)
        ymax == Max(sy)
    IN  IF FEq(ymin, ymax)
        THEN <<FAdd(ymin, -YEps), FAdd(ymax, YEps)>>
        ELSE <<ymin, ymax>>

\* an update() that pops one record per tick at most
TickEndCapped ==
    /\ cpc = "drain"
    /\ q = <<>> \/ tickPops >= 1
    /\ cpc' = "idle"
    /\ IF updated
       THEN /\ redraws' = redraws + 1
            /\ IF xs # <<>> /\ ys # <<>>
               THEN /\ xlim' = Some(XLimits(xs))
                    /\ ylim' = Some(YLimits(ys))
               ELSE UNCHANGED <<xlim, ylim>>
            /\ IF status_codes # <<>>
               THEN title' = Some(Format(status_codes[Len(status_codes)]))
               ELSE UNCHANGED title
       ELSE UNCHANGED <<xlim, ylim, title, redraws>>
    /\ UNCHANGED <<srcVars, mpc, prodVars, putVars, xs, ys, status_codes,
                   updated, tickBase, tickLeft, tickPops>>

\* an update() that pops with a blocking q.get(): with the queue empty it
\* waits, and the tick does not end
TickEndBlocking ==
    /\ cpc = "drain"
    /\ q = <<>>
    /\ FALSE
    /\ UNCHANGED vars

\* an update() that redraws at the end of every tick
TickEndAlways ==
    /\ cpc = "drain"
    /\ q = <<>>
    /\ cpc' = "idle"
    /\ redraws' = redraws + 1
    /\ IF xs # <<>> /\ ys # <<>>
       THEN /\ xlim' = Some(XLimits(xs))
            /\ ylim' = Some(YLimits(ys))
       ELSE UNCHANGED <<xlim, ylim>>
    /\ IF status_codes # <<>>
       THEN title' = Some(Format(status_codes[Len(status_codes)]))
       ELSE UNCHANGED title
    /\ UNCHANGED <<srcVars, mpc, prodVars, putVars, xs, ys, status_codes,
                   updated, tickBase, tickLeft, tickPops>>

\* the queue is empty: break, then the redraw when a point was appended
TickEnd ==
    /\ cpc = "drain"
    /\ q = <<>>
    /\ cpc' = "idle"
    /\ IF updated
       THEN /\ redraws' = redraws + 1
            /\ IF xs # <<>> /\ ys # <<>>
               THEN /\ xlim' = Some(XLimits(xs))
                    /\ ylim' = Some(YLimits(ys))
               ELSE UNCHANGED <<xlim, ylim>>
            /\ IF status_codes # <<>>
               THEN title' = Some(Format(status_codes[Len(status_codes)]))
               ELSE UNCHANGED title
       ELSE UNCHANGED <<xlim, ylim, title, redraws>>
    /\ UNCHANGED <<srcVars, mpc, prodVars, putVars, xs, ys, status_codes,
                   updated, tickBase, tickLeft, tickPops>>

(***************************************************************************)
(* main() up to plt.show(), and the open() of tail_file.                   *)
(***************************************************************************)
\* main(): with no --file and a terminal on stdin, print the hint and
\* return; otherwise start the reader thread, create the deques and the
\* figure, install the animation and enter plt.show()
MainStart ==
    /\ mpc = "start"
    /\ IF mode = "stdin" /\ avail = "tty"
       THEN /\ mpc' = "exit"
            /\ UNCHANGED ppc
       ELSE /\ mpc' = "show"
            /\ ppc' = IF mode = "stdin" THEN "stream" ELSE "open"
    /\ UNCHANGED <<srcVars, pos, header, headerPhase, putVars, consVars>>

\* tail_file: with open(path, "r", buffering=1) as f -- in the thread; a
\* file that cannot be opened raises there and ends the thread only
OpenFile ==
    /\ ppc = "open"
    /\ ppc' = IF avail = "ok" THEN "replay" ELSE "failed"
    /\ UNCHANGED <<srcVars, mpc, pos, header, headerPhase, putVars, consVars>>

(***************************************************************************)
(* The specifications.  Init is the process at the entry of main(), the    *)
(* source being whatever its writer makes of it.  In Spec the writer of    *)
(* the source appends whole lines; in SpecPartial the writer of a tailed   *)
(* file may also flush a line in two parts.  FairSpec adds the scheduling  *)
(* of the main thread, of the producer thread (the operating system runs a *)
(* thread that can run) and of the animation timer (FuncAnimation fires    *)
(* update() every interval); its free runs are kept to MaxFairLines lines. *)
(***************************************************************************)
Init ==
    /\ mode \in {"stdin", "file"}
    /\ feed \in 0..Len(Scenarios)
    /\ file = <<>>
    /\ pending = <<>>
    /\ partials = 0
    /\ closed = FALSE
    /\ pos = 0
    /\ avail \in (IF mode = "stdin" THEN {"ok", "tty"} ELSE {"ok", "missing"})
    /\ mpc = "start"
    /\ ppc = "none"
    /\ header = None
    /\ q = <<>>
    /\ pushed = <<>>
    /\ pushPhase = <<>>
    /\ headerPhase = "none"
    /\ xs = <<>>
    /\ ys = <<>>
    /\ status_codes = <<>>
    /\ cpc = "idle"
    /\ updated = FALSE
    /\ tickBase = 0
    /\ tickLeft = 0
    /\ tickPops = 0
    /\ xlim = None
    /\ ylim = None
    /\ title = None
    /\ redraws = 0

Writer == WriteLine \/ CloseStream
Main == MainStart
Producer ==
    \/ OpenFile
    \/ StreamStep \/ StreamEnd
    \/ ReplayStep \/ ReplayEnd
    \/ FollowStep \/ FollowPoll
Tick == TickBegin \/ TickPop \/ TickEnd

Next == Main \/ Writer \/ Producer \/ Tick
NextPartial == Next \/ WritePartial \/ WriteRest

Spec == Init /\ [][Next]_vars
SpecPartial == Init /\ [][NextPartial]_vars
FairWriter == Writer /\ (feed = 0 => NumLines(file') <= MaxFairLines)
FairNext == Main \/ FairWriter \/ Producer \/ Tick
FairSpec ==
    /\ Init
    /\ [][FairNext]_vars
    /\ WF_vars(Main)
    /\ WF_vars(Producer)
    /\ WF_vars(Tick)

(***************************************************************************)
(* What a source text should yield, computed from the whole text at once.  *)
(***************************************************************************)
IsPrefix(a, b) == Len(a) <= Len(b) /\ a = SubSeq(b, 1, Len(a))

\* the lines of a text without their newlines, an unterminated last line
\* included
RawLines(text) ==
    LET nls == Newlines(text)
        n == Cardinality(nls)
        \* position of the k-th newline
        at == [k \in 1..n |->
                 CHOOSE p \in nls : Cardinality({m \in nls : m < p}) = k - 1]
        start(k) == IF k = 1 THEN 1 ELSE at[k - 1] + 1
        whole == [k \in 1..n |-> SubSeq(text, start(k), at[k] - 1)]
        rest == SubSeq(text, start(n + 1), Len(text))
    IN  IF rest = <<>> THEN whole ELSE Append(whole, rest)

\* the newline-terminated lines only
CompleteLines(text) ==
    SubSeq(RawLines(text), 1, Cardinality(Newlines(text)))

\* lines, stripped, the blank ones left out
NonBlankOf(ls) ==
    SelectSeq([k \in 1..Len(ls) |-> Strip(ls[k])], LAMBDA l : l # <<>>)

NonBlank(text) == NonBlankOf(RawLines(text))

\* the comma-split, trimmed tokens of a line
Tokens(l) == LET parts == Split(l) IN [i \in 1..Len(parts) |-> Strip(parts[i])]

\* the rows of the data lines (those after the first non-blank line) whose
\* field count is the header's length
RowsOf(nb) ==
    IF nb = <<>> THEN <<>>
    ELSE LET n == Len(Tokens(nb[1])) IN
         SelectSeq([i \in 1..(Len(nb) - 1) |-> ParseRow(nb[i + 1])],
                   LAMBDA r : Len(r) = n)

RecordsOf(nb) ==
    LET rows == RowsOf(nb)
        names == IF nb = <<>> THEN <<>> ELSE Tokens(nb[1])
    IN  [i \in 1..Len(rows) |-> MakeRecord(names, rows[i])]

ExpRows(text) == RowsOf(NonBlank(text))
ExpRecords(text) == RecordsOf(NonBlank(text))

\* the X and Y values of a record as floats, None where float() fails
PointOf(rec) == <<try_float(Get(rec, XCol)), try_float(Get(rec, YCol))>>

\* the points of the records that pass update()'s numeric filter
PointsOf(recs) ==
    LET pts == [i \in 1..Len(recs) |-> PointOf(recs[i])]
        ok == SelectSeq(pts, LAMBDA pt : pt[1] # None /\ pt[2] # None)
    IN  [i \in 1..Len(ok) |-> <<ok[i][1][1], ok[i][2][1]>>]

ExpPoints(text) == PointsOf(ExpRecords(text))

\* the SeriesBuffer as a sequence of points
Points == [i \in 1..Len(xs) |-> <<xs[i], ys[i]>>]

\* what the producer has read, and the records update() has popped
Consumed == SubSeq(file, 1, pos)
Popped == SubSeq(pushed, 1, Len(pushed) - Len(q))

(***************************************************************************)
(* C1.  FIFO end to end: under every interleaving of writes, producer      *)
(* steps and render ticks, the points in xs, ys are a prefix of the points *)
(* of the source's data lines, in line order, that pass the arity filter   *)
(* and update()'s numeric filter.                                          *)
(***************************************************************************)
C1_FifoPrefix ==
    /\ Len(xs) = Len(ys)
    /\ IsPrefix(Points, ExpPoints(file))

\* two points admitted in the middle of a drain, a third one still to come
C1_Witness ==
    /\ cpc = "drain"
    /\ q # <<>>
    /\ Len(xs) = 2
    /\ xs[1] # xs[2]
    /\ Len(ExpPoints(file)) > 2
(***************************************************************************)
(* C2.  A finite stream: once the pipe is closed, with the producer thread *)
(* and the render ticks scheduled, xs, ys become and stay exactly the      *)
(* points of all the data lines that pass both filters, each once.         *)
(***************************************************************************)
C2_StreamDrained ==
    (mode = "stdin" /\ closed) ~> [](Points = ExpPoints(file))

\* the documented scenario, drained: xs [1, 2, 4], ys [0.12, 0.34, 0.50]
C2_Witness ==
    /\ mode = "stdin"
    /\ closed
    /\ ppc = "done"
    /\ q = <<>>
    /\ RawLines(file) = EndToEnd
    /\ xs = <<Fin(1000000), Fin(2000000), Fin(4000000)>>
    /\ ys = <<Fin(120000), Fin(340000), Fin(500000)>>
    /\ Points = ExpPoints(file)

(***************************************************************************)
(* C3.  Arity filter: the records enqueued so far, by the stream reader,   *)
(* the replay loop or the follow loop, are exactly the records of the      *)
(* non-blank lines read after the header whose field count equals the      *)
(* header's length, in line order; a shorter or longer line enqueues       *)
(* nothing and the lines after it are still ingested.                      *)
(***************************************************************************)
C3_ArityFilter ==
    /\ pushed = ExpRecords(Consumed)
    /\ header # None =>
          \A i \in 1..Len(pushed) : Len(pushed[i]) <= Len(header[1])

\* a tailed file read to its end while following: the line with four fields
\* was dropped, the lines before and after it were enqueued
C3_Witness ==
    /\ mode = "file"
    /\ ppc = "follow"
    /\ feed = 4
    /\ NumLines(file) = 5
    /\ pos = Len(file)
    /\ Len(pushed) = 3
    /\ Len(NonBlank(Consumed)) = 5

\* a float that is neither nan nor an infinity
IsFinite(f) == f.k = "fin"

\* the points of the records whose X and Y values both parse as finite
\* numbers
FinitePointsOf(recs) ==
    LET pts == [i \in 1..Len(recs) |-> PointOf(recs[i])]
        ok == SelectSeq(pts, LAMBDA pt : /\ pt[1] # None
                                         /\ pt[2] # None
                                         /\ IsFinite(pt[1][1])
                                         /\ IsFinite(pt[2][1]))
    IN  [i \in 1..Len(ok) |-> <<ok[i][1][1], ok[i][2][1]>>]

(***************************************************************************)
(* C4.  Numeric filter as stated: the points appended to xs, ys are those  *)
(* of the drained records whose X and Y values both parse as finite        *)
(* numbers; a record with a non-numeric, empty, missing or non-finite      *)
(* value appends nothing.  update() appends whenever float() succeeds, and *)
(* float("nan"), float("inf") succeed.                                     *)
(***************************************************************************)
C4_FiniteOnly ==
    /\ Points = FinitePointsOf(Popped)
    /\ \A i \in 1..Len(xs) : IsFinite(xs[i]) /\ IsFinite(ys[i])

(***************************************************************************)
(* C5.  Header once: the header is unset until the first non-blank line of *)
(* the source has been read and from then on is the comma-split, trimmed   *)
(* tokens of that line; once set no step changes it, whatever lines arrive *)
(* later; the header line is never enqueued (nothing is enqueued before    *)
(* the header is set, and at most one record per later non-blank line).    *)
(* The same holds when the tailed file was empty at open and the header    *)
(* is read by the follow loop.                                             *)
(***************************************************************************)
C5_HeaderOnce ==
    /\ [](/\ header = IF NonBlank(Consumed) = <<>>
                       THEN None
                       ELSE Some(Tokens(NonBlank(file)[1]))
          /\ header = None => pushed = <<>>
          /\ header # None => Len(pushed) <= Len(NonBlank(Consumed)) - 1
          /\ headerPhase = "follow" => mode = "file" /\ header # None)
    /\ [][header # None => header' = header]_vars

\* the file was empty when the tailer opened it, the header arrived while
\* following, and a later line repeating the column names went by
C5_Witness ==
    /\ mode = "file"
    /\ headerPhase = "follow"
    /\ feed = 4
    /\ NumLines(file) = 5
    /\ pos = Len(file)
    /\ header = Some(<<OFFSET, RESPONSE_TIME, STATUS_CODE>>)
    /\ Len(pushed) = 3
    /\ Get(pushed[3], OFFSET) = Some(OFFSET)

\* the first position of a name in a header
FirstIndex(names, name) ==
    CHOOSE j \in 1..Len(names) :
        /\ names[j] = name
        /\ \A k \in 1..(j - 1) : names[k] # name

\* the record of a row in which a name stands for the field at the first
\* position bearing it
FirstWinsValue(names, row, name) ==
    IF \E j \in 1..Len(names) : names[j] = name
    THEN Some(row[FirstIndex(names, name)])
    ELSE None

(***************************************************************************)
(* C6.  Duplicate column names as stated: every enqueued record maps each  *)
(* header name to the field at the first position bearing that name, and   *)
(* the X and Y values of the points are taken from those fields.  The      *)
(* dict comprehension {h: v for h, v in zip(header, row)} keeps the value  *)
(* of the last position instead.                                           *)
(***************************************************************************)
C6_FirstOccurrenceWins ==
    header # None =>
        LET names == header[1]
            rows == ExpRows(Consumed)
            firstPt(r) == <<try_float(FirstWinsValue(names, r, XCol)),
                            try_float(FirstWinsValue(names, r, YCol))>>
            pts == SelectSeq([i \in 1..Len(rows) |-> firstPt(rows[i])],
                             LAMBDA pt : pt[1] # None /\ pt[2] # None)
        IN  /\ Len(rows) = Len(pushed)
            /\ \A i \in 1..Len(pushed) : \A j \in 1..Len(names) :
                   Get(pushed[i], names[j])
                       = FirstWinsValue(names, rows[i], names[j])
            /\ IsPrefix(Points,
                        [i \in 1..Len(pts) |-> <<pts[i][1][1], pts[i][2][1]>>])

\* the step that ends a tick, and the number of points the tick admitted
TickEnds == cpc = "drain" /\ cpc' = "idle"
Admitted == Len(xs) - tickBase

(***************************************************************************)
(* C7.  Redraw if and only if a point was admitted: the redraw             *)
(* (line.set_data, set_xlim, set_ylim, set_title) happens exactly at the   *)
(* end of a tick that appended at least one point, once, and sets the      *)
(* window from the buffers; no other step touches the window or the        *)
(* title.  A tick that found the queue empty or drained only records that  *)
(* fail the numeric filter ends with xs, ys, status_codes, the window and  *)
(* the title as they were when it began (the buffers only grow by          *)
(* appends, so an unchanged length is an unchanged buffer).                *)
(***************************************************************************)
C7_RedrawIffAdmitted ==
    [][/\ (redraws' # redraws) <=> (TickEnds /\ Admitted > 0)
       /\ redraws' # redraws =>
             /\ redraws' = redraws + 1
             /\ xlim' = Some(XLimits(xs))
             /\ ylim' = Some(YLimits(ys))
             /\ title' = Some(Format(status_codes[Len(status_codes)]))
       /\ redraws' = redraws => UNCHANGED <<xlim, ylim, title>>
       /\ IsPrefix(xs, xs') /\ IsPrefix(ys, ys')
       /\ IsPrefix(status_codes, status_codes')
       /\ cpc = "drain" => Admitted >= 0 /\ tickBase' = tickBase
       /\ cpc' = "drain" /\ cpc = "idle" => tickBase' = Len(xs)
       /\ cpc = "idle" => UNCHANGED <<xs, ys, status_codes>>
      ]_vars

\* a tick that drained a record failing the numeric filter has ended: no
\* point admitted, and the window is the one of the earlier redraw
C7_Witness ==
    /\ cpc = "idle"
    /\ tickPops >= 1
    /\ Admitted = 0
    /\ redraws = 1
    /\ Len(xs) = 1
    /\ xlim = Some(XLimits(xs))

(***************************************************************************)
(* C8.  Degenerate window widening as stated: between ticks, once a point  *)
(* has been admitted, the y bounds lo, hi satisfy lo < hi; when all the    *)
(* buffered y values are equal to some v they are v - 0.1 and v + 0.1, and *)
(* otherwise they are exactly min(ys) and max(ys).  With a nan among the   *)
(* y values (admitted by update(), see C4) min, max and both bounds are    *)
(* nan or compare false, and hi - lo > 0 fails.                            *)
(***************************************************************************)
C8_WindowHeight ==
    cpc = "idle" /\ redraws > 0 =>
        /\ ylim # None
        /\ LET lo == ylim[1][1]
               hi == ylim[1][2]
               flat == \A i \in 1..Len(ys) : ys[i] = ys[1]
           IN  /\ FLt(lo, hi)
               /\ flat => /\ lo = FAdd(ys[1], -YEps)
                           /\ hi = FAdd(ys[1], YEps)
               /\ ~flat => /\ lo = Min(ys)
                            /\ hi = Max(ys)
                            /\ \A i \in 1..Len(ys) :
                                   ~FLt(ys[i], lo) /\ ~FLt(hi, ys[i])

(***************************************************************************)
(* C9.  Partial lines as stated: with a writer that may flush a line in    *)
(* two writes, the tailer's read position is always at the start of a      *)
(* line (0, or just after a newline), so a fragment without its newline    *)
(* is neither decoded nor enqueued, and the records enqueued are records   *)
(* of complete lines of the file, in order.  f.readline() returns the      *)
(* fragment as it stands and tail_file handles it as a line.               *)
(***************************************************************************)
C9_NoPartialRead ==
    mode = "file" =>
        /\ pos = 0 \/ file[pos] = NL
        /\ IsPrefix(pushed, RecordsOf(NonBlankOf(CompleteLines(file))))

(***************************************************************************)
(* C10.  File tailing: the tailer leaves the replay loop only when it has  *)
(* read all the content the file then has, and from then on follows;       *)
(* end-of-file while following never ends the loop; the read position      *)
(* never moves back, and the records enqueued are at every moment a        *)
(* prefix, without repetition, of the records of the file's well-formed    *)
(* lines in file order; with the tailer thread scheduled, the tailer      *)
(* again and again has enqueued the records of all the lines the file     *)
(* then has, so that (the file only growing) every well-formed line is    *)
(* eventually enqueued, whenever it was appended.                         *)
(***************************************************************************)
C10_TailFollows ==
    /\ [](mode = "file" /\ avail = "ok" =>
            /\ ppc \in {"none", "open", "replay", "follow"}
            /\ IsPrefix(pushed, ExpRecords(file))
            /\ pushed = ExpRecords(Consumed))
    /\ [][mode = "file" =>
            /\ pos' >= pos
            /\ ppc = "follow" => ppc' = "follow"
            /\ ppc = "replay" /\ ppc' = "follow" =>
                  pos = Len(file) /\ pushed = ExpRecords(file)
            /\ ppc = "follow" /\ pos = Len(file) =>
                  UNCHANGED <<pos, ppc, header, pushed>>]_vars
    /\ []<>(mode = "file" => pushed = ExpRecords(file))

\* the end-to-end file, its header replayed and its data lines appended
\* and enqueued while following
C10_Witness ==
    /\ mode = "file"
    /\ ppc = "follow"
    /\ feed = 1
    /\ RawLines(file) = EndToEnd
    /\ pos = Len(file)
    /\ headerPhase = "replay"
    /\ pushPhase = <<"follow", "follow", "follow", "follow">>
    /\ pushed = ExpRecords(file)

(***************************************************************************)
(* C11.  Source unavailable at start as stated: when the file cannot be    *)
(* opened, or no file is given and stdin is a terminal, the run aborts     *)
(* before the producer thread is started: the thread never exists, main()  *)
(* never reaches the figure and plt.show(), no tick runs, and the queue    *)
(* and the buffers stay empty.  main() tests only the terminal case; the   *)
(* file is opened by tail_file inside the thread already started, where    *)
(* the failure ends the thread and nothing else.                           *)
(***************************************************************************)
C11_FatalAtStart ==
    avail # "ok" =>
        /\ ppc = "none"
        /\ mpc \in {"start", "exit"}
        /\ cpc = "idle"
        /\ q = <<>>
        /\ xs = <<>> /\ ys = <<>> /\ status_codes = <<>>
        /\ redraws = 0

\* the stream has ended and nothing is left to drain or to redraw
Settled ==
    /\ ppc = "done"
    /\ q = <<>>
    /\ cpc = "idle" \/ ~updated

(***************************************************************************)
(* C12.  End of stream is not an error: the producer thread ends (and      *)
(* stays ended: it reads and pushes nothing more), everything it ever      *)
(* pushed is a record of a line (no end marker), and the buffers are kept  *)
(* (steps only append to them).  With the threads scheduled, the render    *)
(* loop goes on ticking after the end of the stream, drains what was       *)
(* queued, and once that is done and redrawn every later tick is idle: no  *)
(* step changes the buffers, the window, the title or the redraw count.    *)
(***************************************************************************)
C12_EndOfStream ==
    /\ [](ppc = "done" =>
            /\ mode = "stdin" /\ closed /\ pos = Len(file)
            /\ pushed = ExpRecords(file)
            /\ mpc = "show")
    /\ [][ppc = "done" =>
            /\ UNCHANGED <<ppc, pos, header, pushed>>
            /\ IsPrefix(xs, xs') /\ IsPrefix(ys, ys')
            /\ IsPrefix(status_codes, status_codes')]_vars
    /\ [][Settled =>
            /\ Settled'
            /\ UNCHANGED <<xs, ys, status_codes, xlim, ylim, title, redraws>>
         ]_vars
    /\ []<>(ppc = "done" => Settled /\ Points = ExpPoints(file))
    /\ []<>(ppc = "done" => cpc = "drain")
    /\ []<>(ppc = "done" => cpc = "idle")

\* an idle tick in its loop after the end of the end-to-end stream, the
\* three points drawn before it still in place
C12_Witness ==
    /\ ppc = "done"
    /\ Settled
    /\ cpc = "drain"
    /\ tickPops = 0
    /\ tickBase = 3
    /\ RawLines(file) = EndToEnd
    /\ Len(xs) = 3
    /\ redraws >= 1
    /\ ylim = Some(YLimits(ys))

\* the producer has a line to read
LineReady ==
    \/ /\ ppc = "stream"
       /\ FindNL(file, pos + 1) # 0 \/ (closed /\ pos < Len(file))
    \/ /\ ppc \in {"replay", "follow"}
       /\ pos < Len(file)

WithStatus(rec, v) ==
    IF v = None
    THEN SelectSeq(rec, LAMBDA kv : kv[1] # STATUS_CODE)
    ELSE SetItem(rec, STATUS_CODE, v[1])

\* the status values of the other run: no column, "404", "", "nan"
OtherStatuses ==
    {None, Some(<<"4", "0", "4">>), Some(<<>>), Some(<<"n", "a", "n">>)}

\* the limits update() left after its latest redraw, from x and y values
\* alone
WindowOf(sx, sy) ==
    IF sx = <<>> THEN <<None, None>>
    ELSE <<Some(XLimits(sx)), Some(YLimits(sy))>>

(***************************************************************************)
(* C14.  The status-code never affects admission or the axes: at every     *)
(* moment xs, ys are what the same pops give in a run whose records carry  *)
(* any other status-code, or none at all (the X and Y columns being other  *)
(* columns than status-code), and the limits are a function of the x and   *)
(* y values drawn at the latest redraw alone; the status reaches only      *)
(* status_codes and the title.                                             *)
(***************************************************************************)
C14_StatusIrrelevant ==
    /\ XCol # STATUS_CODE /\ YCol # STATUS_CODE
    /\ \A v \in OtherStatuses :
          Points = PointsOf([i \in 1..Len(Popped) |-> WithStatus(Popped[i], v)])
    /\ LET drawn == IF cpc = "idle" THEN Len(xs) ELSE tickBase IN
       <<xlim, ylim>> = WindowOf(SubSeq(xs, 1, drawn), SubSeq(ys, 1, drawn))

\* two sources that differ in the status-code column only: with it ("500",
\* after a short line) and without it (title "None"); the same point, the
\* same limits
C14_Witness ==
    /\ cpc = "idle"
    /\ xs = <<Fin(5000000)>>
    /\ ys = <<Fin(500000)>>
    /\ feed = 6
    /\ title = Some(<<"N", "o", "n", "e">>)
    /\ xlim = Some(<<Fin(5000000), Fin(5000001)>>)
    /\ ylim = Some(<<Fin(400000), Fin(600000)>>)

\* the records that pass update()'s numeric filter
AdmittedOf(recs) ==
    SelectSeq(recs, LAMBDA r : PointOf(r)[1] # None /\ PointOf(r)[2] # None)

(***************************************************************************)
(* C15.  The title shows the status-code of the most recently admitted     *)
(* point: status_codes holds the status-code of each admitted record and   *)
(* of no other, and after a redraw the title is the last of those that     *)
(* the redraw saw; before the first redraw there is no status in the       *)
(* title.  The status of a record dropped by either filter is never        *)
(* shown, however late it was read.                                        *)
(***************************************************************************)
C15_TitleLastAdmitted ==
    LET adm == AdmittedOf(Popped)
        drawn == IF cpc = "idle" THEN Len(xs) ELSE tickBase
    IN  /\ status_codes = [i \in 1..Len(adm) |-> Get(adm[i], STATUS_CODE)]
        /\ drawn <= Len(adm)
        /\ title = IF drawn = 0 THEN None
                   ELSE Some(Format(Get(adm[drawn], STATUS_CODE)))

\* every line of the file read and drained: the one admitted record has
\* the status a,b; the later records, with the statuses 200 and
\* status-code, were dropped by the numeric filter and the title still
\* shows a,b
C15_Witness ==
    /\ feed = 4
    /\ NumLines(file) = 5
    /\ pos = Len(file)
    /\ q = <<>>
    /\ cpc = "idle"
    /\ Len(pushed) = 3
    /\ Get(pushed[3], STATUS_CODE) = Some(STATUS_CODE)
    /\ status_codes = <<Some(<<"a", ",", "b">>)>>
    /\ title = Some(<<"a", ",", "b">>)

\* the number of records popped so far
NumPopped == Len(pushed) - Len(q)

(***************************************************************************)
(* C16.  Complete drain: the queue always holds the records pushed and     *)
(* not yet popped, in push order; every pop takes the oldest of them and   *)
(* puts it through the numeric filter; a tick ends only when the queue is  *)
(* empty, so that every record that was queued when it began (and every    *)
(* record pushed meanwhile) has been popped, however many there were; pops *)
(* happen inside ticks only and a popped record never returns to the       *)
(* queue, so that each record is popped by exactly one tick.               *)
(***************************************************************************)
C16_CompleteDrain ==
    /\ [](/\ q = SubSeq(pushed, NumPopped + 1, Len(pushed))
          /\ cpc = "drain" => tickLeft <= Len(q)
          /\ Points = PointsOf(Popped))
    /\ [][/\ TickEnds => q = <<>> /\ tickLeft = 0
          /\ NumPopped' >= NumPopped
          /\ NumPopped' # NumPopped =>
                /\ cpc = "drain" /\ cpc' = "drain"
                /\ NumPopped' = NumPopped + 1
                /\ tickPops' = tickPops + 1
                /\ q' = Tail(q)
                /\ Points' = Points \o PointsOf(<<Head(q)>>)
          /\ cpc' = "drain" /\ cpc = "idle" =>
                tickPops' = 0 /\ tickLeft' = Len(q)
         ]_vars

\* a tick has ended after popping four records, one after the other
C16_Witness ==
    /\ cpc = "idle"
    /\ tickPops = 4
    /\ Len(pushed) = 4
    /\ q = <<>>
    /\ tickBase = 0
    /\ Len(xs) = 3

(***************************************************************************)
(* C17.  Parallel buffers: xs, ys and status_codes always have the same    *)
(* length, and index i of the three holds the x value, the y value and     *)
(* the status-code of the i-th admitted record; every step leaves each of  *)
(* them as it was or appends at its end, so that an earlier content is a   *)
(* prefix of every later one: nothing is removed, reordered or             *)
(* overwritten.                                                            *)
(***************************************************************************)
C17_ParallelAppendOnly ==
    /\ [](LET adm == AdmittedOf(Popped) IN
          /\ Len(xs) = Len(adm)
          /\ Len(ys) = Len(adm)
          /\ Len(status_codes) = Len(adm)
          /\ \A i \in 1..Len(adm) :
                /\ Some(xs[i]) = try_float(Get(adm[i], XCol))
                /\ Some(ys[i]) = try_float(Get(adm[i], YCol))
                /\ status_codes[i] = Get(adm[i], STATUS_CODE))
    /\ [][/\ IsPrefix(xs, xs')
          /\ IsPrefix(ys, ys')
          /\ IsPrefix(status_codes, status_codes')
          /\ Len(xs') <= Len(xs) + 1
          /\ Len(xs') = Len(ys') /\ Len(ys') = Len(status_codes')]_vars

\* the end-to-end scenario between ticks: three points with the statuses
\* 200, 200, 500, the record with the non-numeric value left out
C17_Witness ==
    /\ cpc = "idle"
    /\ feed = 1
    /\ Len(Popped) = 4
    /\ xs = <<Fin(1000000), Fin(2000000), Fin(4000000)>>
    /\ ys = <<Fin(120000), Fin(340000), Fin(500000)>>
    /\ status_codes = <<Some(<<"2", "0", "0">>), Some(<<"2", "0", "0">>),
                        Some(<<"5", "0", "0">>)>>

\* a <= b on floats
FLe(a, b) == FLt(a, b) \/ FEq(a, b)

(***************************************************************************)
(* C18.  The window covers the whole buffer, as stated: between ticks,     *)
(* once a point has been admitted, xMin = min(xs), xMax >= max(xs),        *)
(* yMin <= min(ys), yMax >= max(ys), and every buffered point, old or      *)
(* new, lies inside the window.  The limits are computed over the whole    *)
(* deques, but with a nan among the values (admitted by update(), see C4)  *)
(* the comparisons with the limits are false.                              *)
(***************************************************************************)
C18_WindowCoversAll ==
    cpc = "idle" /\ redraws > 0 =>
        /\ xlim # None /\ ylim # None
        /\ xlim[1][1] = Min(xs)
        /\ FLe(Max(xs), xlim[1][2])
        /\ FLe(ylim[1][1], Min(ys))
        /\ FLe(Max(ys), ylim[1][2])
        /\ \A i \in 1..Len(xs) :
              /\ FLe(xlim[1][1], xs[i]) /\ FLe(xs[i], xlim[1][2])
              /\ FLe(ylim[1][1], ys[i]) /\ FLe(ys[i], ylim[1][2])

\* the state of each thread, and of the source
producerState == <<pos, ppc, header>>
consumerState == <<xs, ys, status_codes, xlim, ylim, title, redraws, cpc,
                   updated>>
sourceState == <<file, pending, closed>>

(***************************************************************************)
(* C19.  Single ownership: a step of the producer thread (opening,         *)
(* reading a line, setting the header, pushing, polling, ending) leaves    *)
(* the buffers, the window, the title and update()'s own state unchanged;  *)
(* a step of a render tick leaves the header, the read position and the    *)
(* producer's place unchanged and pushes nothing; the buffers and the      *)
(* window change in tick steps only, the header and the position in        *)
(* producer steps only; the queue is the one thing both change: the        *)
(* producer only appends to it, the tick only takes its head.              *)
(***************************************************************************)
C19_SingleOwnership ==
    [][/\ Producer => UNCHANGED <<consumerState, sourceState>>
       /\ Tick => UNCHANGED <<producerState, pushed, sourceState>>
       /\ consumerState' # consumerState => Tick
       /\ producerState' # producerState => Producer \/ Main
       /\ Main => UNCHANGED <<consumerState, pos, header, q, sourceState>>
       /\ q' # q =>
             \/ Producer /\ Len(q') = Len(q) + 1 /\ IsPrefix(q, q')
             \/ Tick /\ q' = Tail(q)
      ]_vars

\* both threads at work: the tick in its loop with a record to pop and
\* points already in the buffer, the producer with a header and a line
\* to read
C19_Witness ==
    /\ cpc = "drain"
    /\ q # <<>>
    /\ xs # <<>>
    /\ header # None
    /\ LineReady
    /\ redraws >= 1

(***************************************************************************)
(* C20.  Non-degenerate x range, as stated: between ticks, once a point    *)
(* has been admitted, xMin < xMax, for one point and for any number of     *)
(* points, those sharing one x value included.  update() widens the upper  *)
(* limit only when len(xs) = 1: two points with the same x give            *)
(* set_xlim(x, x).                                                         *)
(***************************************************************************)
C20_XRangeNonDegenerate ==
    cpc = "idle" /\ redraws > 0 =>
        /\ xlim # None
        /\ FLt(xlim[1][1], xlim[1][2])

====
